---- MODULE Spec2Model ----
(***************************************************************************)
(* Model of the QrScanner React component (src/components/qr-scanner.tsx). *)
(*                                                                         *)
(* One component instance.  Every call of startCamera opens a session,     *)
(* numbered 1, 2, ...; the stream a session is granted and the interval    *)
(* timer its closure chain creates carry the session's number, so stream   *)
(* k and timer k are the ones session k obtained.  JavaScript runs each    *)
(* handler to completion, so each action below is one whole handler: the   *)
(* synchronous part of startCamera, the continuation after an await, an    *)
(* event handler or an interval callback.                                  *)
(*                                                                         *)
(* Environment: getUserMedia resolves or rejects each pending call, the    *)
(* video element fires loadedmetadata once per srcObject it was given      *)
(* (while that stream is live), import("jsqr") resolves or rejects, live   *)
(* interval timers fire, React unmounts the component, and React re-runs   *)
(* the mount effect (cleanup, then effect) as StrictMode and Fast Refresh  *)
(* do.  The <video>/<canvas> elements exist exactly while the component    *)
(* is mounted and `error` is null (lines 166-182 render the alert          *)
(* instead); an element that was removed delivers no further events.       *)
(***************************************************************************)
EXTENDS Integers, Sequences, FiniteSets, TLC

\* ---------------------------------------------------------------- bounds
MaxSessions == 2     \* startCamera calls explored
MaxLog == 2          \* callback invocations recorded
MaxAttempts == 17    \* fallback frames analysed, over all timers
MaxDeliveries == 11  \* scan results the page receives

\* ----------------------------------------------------- program constants
AttemptGate == 15    \* scanAttempts > 15

NoError == "none"                       \* error === null
DefaultMessage == "Camera access denied"

Sessions == 1..MaxSessions

\* Rejection values getUserMedia may produce: Error objects carrying a
\* message, or a value that is not an Error.
Causes == {"permission denied", "device busy"}
Rejections == [isError : {TRUE}, message : Causes] \cup {[isError |-> FALSE, message |-> ""]}

\* Results of jsQR(...): null, or a code object with its data string.
NullCode == [found |-> FALSE, data |-> ""]
Codes == {NullCode} \cup [found : {TRUE}, data : {"", "https://example.org"}]

\* Date.now() values seen by the fallback.
Clock == 1..2

\* getUserMedia asks for 640x480 as an ideal only; a canvas without size
\* attributes is 300x150.
RequestedSize == <<640, 480>>
DefaultCanvas == <<300, 150>>

\* Resolutions a device may deliver (width, height).
Resolutions == {RequestedSize, <<480, 270>>, <<80, 60>>, <<63, 63>>}

\* The resolution the device keeps throughout Spec.
SteadyResolution == <<80, 60>>

VARIABLES
    mounted,          \* the component is mounted (its refs to DOM nodes are set)
    isLoading,        \* useState isLoading
    error,            \* useState error (NoError for null)
    streamRef,        \* streamRef.current: 0 for null, else the stream
    scanIntervalRef,  \* scanIntervalRef.current: 0 for null, else the timer
    openStreams,      \* streams granted whose tracks have not been stopped
    liveTimers,       \* interval timers created and not cleared
    timerKind,        \* per session: "none", "jsqr" or "fallback" timer created
    scanAttempts,     \* per session: the fallback closure's scanAttempts
    acquiring,        \* sessions suspended at await getUserMedia
    importing,        \* sessions suspended at await import("jsqr")
    srcObject,        \* video.srcObject: 0 or the stream attached
    metaPending,      \* stream whose loadedmetadata the video has yet to fire, or 0
    sessions,         \* number of startCamera calls so far
    granted,          \* streams ever granted
    rejected,         \* per session: the rejection getUserMedia produced, if any
    log,              \* callbacks invoked on the parent, in order
    videoSize,        \* video.videoWidth, video.videoHeight: what the device delivers
    canvasSize,       \* canvas.width, canvas.height
    lastOp,           \* which stopCamera call the last handler ended in, if any
    isScanning,       \* page: useState isScanning
    scannedData,      \* page: useState scannedData
    scanHistory,      \* page: useState scanHistory
    pageNow,          \* page: the latest time new Date() returned
    deliveries        \* page: every entry handleScanResult built, oldest first

vars == <<mounted, isLoading, error, streamRef, scanIntervalRef, openStreams,
          liveTimers, timerKind, scanAttempts, acquiring, importing, srcObject,
          metaPending, sessions, granted, rejected, log, videoSize, canvasSize,
          lastOp, isScanning, scannedData, scanHistory, pageNow, deliveries>>

\* The state of the page that renders the component.
pageVars == <<isScanning, scannedData, scanHistory, pageNow, deliveries>>

\* What the component's handlers read and write, besides mounted.
scannerVars == <<isLoading, error, streamRef, scanIntervalRef, openStreams, liveTimers,
                 timerKind, scanAttempts, acquiring, importing, srcObject, metaPending,
                 sessions, granted, rejected, log, videoSize, canvasSize, lastOp>>

\* useState<string | null>: null, or a string (a sequence of characters)
NullData == [isNull |-> TRUE, text |-> <<>>]

NoRejection == [isError |-> FALSE, message |-> "-"]

\* lastOp after a handler that ended in stopCamera: from the interval
\* callback or from the effect's cleanup, and "...Again" when the handler
\* before it ended in stopCamera as well.
StopOps == {"tickStop", "unmount", "tickStopAgain", "unmountAgain"}

\* videoRef.current && canvasRef.current
videoPresent == mounted /\ error = NoError

\* video.readyState can be HAVE_ENOUGH_DATA only once the attached source
\* has loaded its metadata; a stopped stream leaves its last frame.
videoLoaded == videoPresent /\ srcObject # 0 /\ metaPending = 0

ReadyStates == IF videoLoaded THEN BOOLEAN ELSE {FALSE}

\* err instanceof Error ? err.message : "Camera access denied"
ErrorMessageConstant(err) == DefaultMessage
ErrorMessage(err) == IF err.isError THEN err.message ELSE DefaultMessage

\* `https://example.com/qr-detected-${Date.now()}`
FallbackPayload(now) ==
    IF now = 1 THEN "https://example.com/qr-detected-1"
               ELSE "https://example.com/qr-detected-2"

\* One invocation of a parent callback, with the two ref slots as they are
\* at the moment of the call.
Emission(cb, arg, k) ==
    [cb |-> cb, arg |-> arg, session |-> k, epoch |-> sessions,
     streamSlot |-> streamRef, timerSlot |-> scanIntervalRef]

\* The session state of section 4.4 read off the component.
SessionState ==
    IF error # NoError THEN "Failed"
    ELSE IF \E i \in 1..Len(log) : log[i].cb = "onScanResult" /\ log[i].epoch = sessions
         THEN "Succeeded"
    ELSE IF ~mounted THEN "Idle"
    ELSE IF sessions \in acquiring THEN "Acquiring"
    ELSE "Scanning"

Init ==
    /\ mounted = TRUE
    /\ isLoading = TRUE
    /\ error = NoError
    /\ streamRef = 0
    /\ scanIntervalRef = 0
    /\ openStreams = {}
    /\ liveTimers = {}
    /\ timerKind = [k \in Sessions |-> "none"]
    /\ scanAttempts = [k \in Sessions |-> 0]
    /\ acquiring = {1}
    /\ importing = {}
    /\ srcObject = 0
    /\ metaPending = 0
    /\ sessions = 1
    /\ granted = {}
    /\ rejected = [k \in Sessions |-> NoRejection]
    /\ log = <<>>
    /\ videoSize = SteadyResolution
    /\ canvasSize = DefaultCanvas
    /\ lastOp = "other"
    /\ isScanning = TRUE
    /\ scannedData = NullData
    /\ scanHistory = <<>>
    /\ pageNow = 0
    /\ deliveries = <<>>

\* stopCamera with `else if` in place of the second `if`
StopCameraElseIf ==
    IF streamRef # 0
    THEN /\ openStreams' = openStreams \ {streamRef}
         /\ streamRef' = 0
         /\ UNCHANGED <<liveTimers, scanIntervalRef>>
    ELSE /\ liveTimers' = IF scanIntervalRef # 0 THEN liveTimers \ {scanIntervalRef} ELSE liveTimers
         /\ scanIntervalRef' = 0
         /\ UNCHANGED <<openStreams, streamRef>>

\* stopCamera
StopCamera ==
    /\ openStreams' = IF streamRef # 0 THEN openStreams \ {streamRef} ELSE openStreams
    /\ streamRef' = 0
    /\ liveTimers' = IF scanIntervalRef # 0 THEN liveTimers \ {scanIntervalRef} ELSE liveTimers
    /\ scanIntervalRef' = 0

\* startCamera up to its await: a new getUserMedia call is pending.
StartCamera ==
    /\ sessions < MaxSessions
    /\ sessions' = sessions + 1
    /\ isLoading' = TRUE
    /\ error' = NoError
    /\ acquiring' = acquiring \cup {sessions + 1}

\* getUserMedia resolves for session k: the rest of the try block.
AcquireOk(k) ==
    /\ k \in acquiring
    /\ acquiring' = acquiring \ {k}
    /\ streamRef' = k
    /\ openStreams' = openStreams \cup {k}
    /\ granted' = granted \cup {k}
    /\ IF videoPresent
       THEN srcObject' = k /\ metaPending' = k
       ELSE UNCHANGED <<srcObject, metaPending>>
    /\ lastOp' = "other"
    /\ UNCHANGED <<mounted, isLoading, error, scanIntervalRef, liveTimers, timerKind,
                   scanAttempts, importing, sessions, rejected, log, videoSize,
                   canvasSize>>
    /\ UNCHANGED pageVars

\* getUserMedia rejects for session k with err: the catch block.
AcquireFail(k, err) ==
    /\ k \in acquiring
    /\ Len(log) < MaxLog
    /\ acquiring' = acquiring \ {k}
    /\ rejected' = [rejected EXCEPT ![k] = err]
    /\ IF mounted
       THEN /\ error' = ErrorMessage(err)
            /\ isLoading' = FALSE
            /\ srcObject' = 0
            /\ metaPending' = 0
            /\ canvasSize' = DefaultCanvas
       ELSE UNCHANGED <<error, isLoading, srcObject, metaPending, canvasSize>>
    /\ log' = Append(log, Emission("onError", ErrorMessage(err), k))
    /\ lastOp' = "other"
    /\ UNCHANGED <<mounted, streamRef, scanIntervalRef, openStreams, liveTimers,
                   timerKind, scanAttempts, importing, sessions, granted, videoSize>>
    /\ UNCHANGED pageVars

\* video.onloadedmetadata: setIsLoading(false); startScanning() up to the
\* await import("jsqr") inside scanWithJsQR.
MetadataLoaded ==
    /\ metaPending # 0
    /\ metaPending \in openStreams
    /\ metaPending' = 0
    /\ isLoading' = FALSE
    /\ importing' = IF videoPresent THEN importing \cup {metaPending} ELSE importing
    /\ lastOp' = "other"
    /\ UNCHANGED <<mounted, error, streamRef, scanIntervalRef, openStreams, liveTimers,
                   timerKind, scanAttempts, acquiring, srcObject, sessions, granted,
                   rejected, log, videoSize, canvasSize>>
    /\ UNCHANGED pageVars

\* import("jsqr") resolves: scanIntervalRef.current = setInterval(..., 100)
ImportOk(k) ==
    /\ k \in importing
    /\ importing' = importing \ {k}
    /\ scanIntervalRef' = k
    /\ liveTimers' = liveTimers \cup {k}
    /\ timerKind' = [timerKind EXCEPT ![k] = "jsqr"]
    /\ lastOp' = "other"
    /\ UNCHANGED <<mounted, isLoading, error, streamRef, openStreams, scanAttempts,
                   acquiring, srcObject, metaPending, sessions, granted, rejected, log,
                   videoSize, canvasSize>>
    /\ UNCHANGED pageVars

\* import("jsqr") rejects: startFallbackScanning()
ImportFailReported(k) ==
    /\ k \in importing
    /\ importing' = importing \ {k}
    /\ scanAttempts' = [scanAttempts EXCEPT ![k] = 0]
    /\ scanIntervalRef' = k
    /\ liveTimers' = liveTimers \cup {k}
    /\ timerKind' = [timerKind EXCEPT ![k] = "fallback"]
    /\ Len(log) < MaxLog
    /\ log' = Append(log, Emission("onError", DefaultMessage, k))
    /\ lastOp' = "other"
    /\ UNCHANGED <<mounted, isLoading, error, streamRef, openStreams, acquiring,
                   srcObject, metaPending, sessions, granted, rejected, videoSize,
                   canvasSize>>
    /\ UNCHANGED pageVars
ImportFail(k) ==
    /\ k \in importing
    /\ importing' = importing \ {k}
    /\ scanAttempts' = [scanAttempts EXCEPT ![k] = 0]
    /\ scanIntervalRef' = k
    /\ liveTimers' = liveTimers \cup {k}
    /\ timerKind' = [timerKind EXCEPT ![k] = "fallback"]
    /\ lastOp' = "other"
    /\ UNCHANGED <<mounted, isLoading, error, streamRef, openStreams, acquiring,
                   srcObject, metaPending, sessions, granted, rejected, log, videoSize,
                   canvasSize>>
    /\ UNCHANGED pageVars

\* `code && code.data`
Truthy(code) == code.found /\ code.data # ""

\* lastOp after an interval callback: whether it ended in stopCamera.
StopMark == IF lastOp \in StopOps THEN "tickStopAgain" ELSE "tickStop"

\* The interval callback of scanWithJsQR, for timer t; ready is
\* video.readyState === HAVE_ENOUGH_DATA and code what jsQR returns.
JsQRCallbackRequestedSize(t, ready, code) ==
    /\ t \in liveTimers
    /\ timerKind[t] = "jsqr"
    /\ ready \in ReadyStates
    /\ IF videoPresent /\ ready
       THEN /\ canvasSize' = RequestedSize
            /\ IF Truthy(code)
               THEN /\ Len(log) < MaxLog
                    /\ log' = Append(log, Emission("onScanResult", code.data, t))
                    /\ StopCamera
               ELSE UNCHANGED <<log, openStreams, streamRef, liveTimers, scanIntervalRef>>
       ELSE UNCHANGED <<canvasSize, log, openStreams, streamRef, liveTimers,
                        scanIntervalRef>>
    /\ UNCHANGED <<mounted, isLoading, error, timerKind, scanAttempts, acquiring,
                   importing, srcObject, metaPending, sessions, granted, rejected,
                   videoSize>>
    /\ UNCHANGED pageVars
JsQRCallback(t, ready, code) ==
    /\ t \in liveTimers
    /\ timerKind[t] = "jsqr"
    /\ ready \in ReadyStates
    /\ IF videoPresent /\ ready
       THEN /\ canvasSize' = videoSize
            /\ IF Truthy(code)
               THEN /\ Len(log) < MaxLog
                    /\ log' = Append(log, Emission("onScanResult", code.data, t))
                    /\ StopCamera
               ELSE UNCHANGED <<log, openStreams, streamRef, liveTimers, scanIntervalRef>>
       ELSE UNCHANGED <<canvasSize, log, openStreams, streamRef, liveTimers,
                        scanIntervalRef>>
    /\ UNCHANGED <<mounted, isLoading, error, timerKind, scanAttempts, acquiring,
                   importing, srcObject, metaPending, sessions, granted, rejected,
                   videoSize>>
    /\ UNCHANGED pageVars

TickJsQR(t, ready, code) ==
    /\ JsQRCallback(t, ready, code)
    /\ lastOp' = IF log' # log THEN StopMark ELSE "other"

\* The same callback, with lastOp telling whether it captured a frame.
TracedTickJsQR(t, ready, code) ==
    /\ JsQRCallback(t, ready, code)
    /\ lastOp' = IF log' # log THEN StopMark
                 ELSE IF videoPresent /\ ready THEN "tickCaptured" ELSE "tickSkipped"

RECURSIVE SumTo(_, _)
SumTo(f, n) == IF n = 0 THEN 0 ELSE f[n] + SumTo(f, n - 1)

\* Frames the fallback callbacks have analysed so far.
TotalAttempts == SumTo(scanAttempts, MaxSessions)

Min2(a, b) == IF a < b THEN a ELSE b

\* Math.min(200, Math.floor(Math.min(canvas.width, canvas.height) / 2))
SampleSize(w, h) == Min2(200, Min2(w, h) \div 2)

\* The values a loop variable takes, doubled so that halves stay integers:
\* for (v = center - sampleSize / 2; v < center + sampleSize / 2; v += 2)
LoopCoords2(center, size) ==
    {2 * center - size + 4 * j : j \in {i \in 0..size : 4 * i < 2 * size}}

\* v >= 0 && v < extent, on a doubled value
InFrame2(v2, extent) == v2 >= 0 /\ v2 < 2 * extent

\* The doubled x and y at which the loop body reads the image data.
SampleXs(w, h) == {x2 \in LoopCoords2(w \div 2, SampleSize(w, h)) : InFrame2(x2, w)}
SampleYs(w, h) == {y2 \in LoopCoords2(h \div 2, SampleSize(w, h)) : InFrame2(y2, h)}

\* i = (y * canvas.width + x) * 4
DataIndex(x2, y2, w) == 2 * (y2 * w + x2)

\* data[i], data[i + 1], data[i + 2] are the red, green and blue bytes of one
\* pixel exactly when i is a multiple of 4; otherwise they are the blue and
\* alpha bytes of one pixel and the red byte of the next.
ReadsPixel(x2, y2, w) == DataIndex(x2, y2, w) % 4 = 0

\* Samples taken, and those among them that read the bytes of one pixel.
TotalSamples(w, h) == Cardinality(SampleXs(w, h)) * Cardinality(SampleYs(w, h))
AlignedSamples(w, h) ==
    LET X == SampleXs(w, h)
        Y == SampleYs(w, h)
        X0 == {x2 \in X : x2 % 2 = 0}
        Y0 == {y2 \in Y : (y2 * w) % 2 = 0}
    IN  Cardinality(X0) * Cardinality(Y0) + Cardinality(X \ X0) * Cardinality(Y \ Y0)

\* contrastRatio > 0.2 && blackPixels > 100 && whitePixels > 100 can hold for
\* some frame of this size: a sample that takes in the alpha byte (255 on a
\* drawn video frame) has brightness >= 85 and is never counted as black.
CanQualify(w, h) == AlignedSamples(w, h) > 100 /\ TotalSamples(w, h) > 200

\* The frame sizes at which the thresholds can be met.
QualifyingSizes == {size \in Resolutions \cup {SteadyResolution} : CanQualify(size[1], size[2])}

\* scanAttempts > 15, on the counter already incremented
PastGateAtFifteen(attempts) == attempts >= AttemptGate
PastGate(attempts) == attempts > AttemptGate

\* The interval callback of startFallbackScanning, for timer t; qualifies
\* is contrastRatio > 0.2 && blackPixels > 100 && whitePixels > 100.
FallbackCallbackCountsSkipped(t, ready, qualifies, now) ==
    /\ t \in liveTimers
    /\ timerKind[t] = "fallback"
    /\ ready \in ReadyStates
    /\ TotalAttempts < MaxAttempts
    /\ scanAttempts' = [scanAttempts EXCEPT ![t] = @ + 1]
    /\ IF videoPresent /\ ready
       THEN /\ qualifies => videoSize \in QualifyingSizes
            /\ canvasSize' = videoSize
            /\ IF qualifies /\ PastGate(scanAttempts[t] + 1)
               THEN /\ Len(log) < MaxLog
                    /\ log' = Append(log, Emission("onScanResult", FallbackPayload(now), t))
                    /\ StopCamera
               ELSE UNCHANGED <<log, openStreams, streamRef, liveTimers, scanIntervalRef>>
       ELSE UNCHANGED <<canvasSize, log, openStreams, streamRef, liveTimers,
                        scanIntervalRef>>
    /\ UNCHANGED <<mounted, isLoading, error, timerKind, acquiring, importing,
                   srcObject, metaPending, sessions, granted, rejected, videoSize>>
    /\ UNCHANGED pageVars
FallbackCallback(t, ready, qualifies, now) ==
    /\ t \in liveTimers
    /\ timerKind[t] = "fallback"
    /\ ready \in ReadyStates
    /\ IF videoPresent /\ ready
       THEN /\ TotalAttempts < MaxAttempts
            /\ qualifies => videoSize \in QualifyingSizes
            /\ canvasSize' = videoSize
            /\ scanAttempts' = [scanAttempts EXCEPT ![t] = @ + 1]
            /\ IF qualifies /\ PastGate(scanAttempts[t] + 1)
               THEN /\ Len(log) < MaxLog
                    /\ log' = Append(log, Emission("onScanResult", FallbackPayload(now), t))
                    /\ StopCamera
               ELSE UNCHANGED <<log, openStreams, streamRef, liveTimers, scanIntervalRef>>
       ELSE UNCHANGED <<canvasSize, scanAttempts, log, openStreams, streamRef,
                        liveTimers, scanIntervalRef>>
    /\ UNCHANGED <<mounted, isLoading, error, timerKind, acquiring, importing,
                   srcObject, metaPending, sessions, granted, rejected, videoSize>>
    /\ UNCHANGED pageVars

TickFallback(t, ready, qualifies, now) ==
    /\ FallbackCallback(t, ready, qualifies, now)
    /\ lastOp' = IF log' # log THEN StopMark ELSE "other"

\* The same callback, with lastOp telling whether it captured a frame.
TracedTickFallback(t, ready, qualifies, now) ==
    /\ FallbackCallback(t, ready, qualifies, now)
    /\ lastOp' = IF log' # log THEN StopMark
                 ELSE IF videoPresent /\ ready THEN "tickCaptured" ELSE "tickSkipped"

\* The device starts delivering another resolution (the video's resize).
Resize(size) ==
    /\ size # videoSize
    /\ videoSize' = size
    /\ lastOp' = "other"
    /\ UNCHANGED <<mounted, isLoading, error, streamRef, scanIntervalRef, openStreams,
                   liveTimers, timerKind, scanAttempts, acquiring, importing, srcObject,
                   metaPending, sessions, granted, rejected, log, canvasSize>>
    /\ UNCHANGED pageVars

\* The effect's cleanup at unmount: stopCamera(); the elements go away.
Unmount ==
    /\ mounted
    /\ mounted' = FALSE
    /\ StopCamera
    /\ srcObject' = 0
    /\ metaPending' = 0
    /\ canvasSize' = DefaultCanvas
    /\ lastOp' = IF lastOp \in StopOps THEN "unmountAgain" ELSE "unmount"
    /\ UNCHANGED <<isLoading, error, timerKind, scanAttempts, acquiring, importing,
                   sessions, granted, rejected, log, videoSize>>
    /\ UNCHANGED pageVars

\* retryCamera: the button exists only while error is set.
RetryCameraKeepsError ==
    /\ mounted
    /\ error # NoError
    /\ StopCamera
    /\ sessions < MaxSessions
    /\ sessions' = sessions + 1
    /\ isLoading' = TRUE
    /\ acquiring' = acquiring \cup {sessions + 1}
    /\ lastOp' = "other"
    /\ UNCHANGED <<mounted, error, timerKind, scanAttempts, importing, srcObject,
                   metaPending, granted, rejected, log, videoSize, canvasSize>>
    /\ UNCHANGED pageVars
RetryCamera ==
    /\ mounted
    /\ error # NoError
    /\ StopCamera
    /\ StartCamera
    /\ lastOp' = "other"
    /\ UNCHANGED <<mounted, timerKind, scanAttempts, importing, srcObject, metaPending,
                   granted, rejected, log, videoSize, canvasSize>>
    /\ UNCHANGED pageVars

\* React runs the effect's cleanup and the effect again on the mounted
\* component: stopCamera(), then startCamera(). Development builds do this
\* once per mount (StrictMode), so it follows the first startCamera call.
EffectRerun ==
    /\ mounted
    /\ sessions = 1
    /\ StopCamera
    /\ StartCamera
    /\ IF error # NoError
       THEN srcObject' = 0 /\ metaPending' = 0 /\ canvasSize' = DefaultCanvas
       ELSE UNCHANGED <<srcObject, metaPending, canvasSize>>
    /\ lastOp' = "other"
    /\ UNCHANGED <<mounted, timerKind, scanAttempts, importing, granted, rejected, log,
                   videoSize>>
    /\ UNCHANGED pageVars

Next ==
    \/ \E k \in Sessions : AcquireOk(k)
    \/ \E k \in Sessions, err \in Rejections : AcquireFail(k, err)
    \/ MetadataLoaded
    \/ \E k \in Sessions : ImportOk(k)
    \/ \E k \in Sessions : ImportFail(k)
    \/ \E t \in Sessions, ready \in BOOLEAN, code \in Codes : TickJsQR(t, ready, code)
    \/ \E t \in Sessions, ready \in BOOLEAN, q \in BOOLEAN, now \in Clock :
          TickFallback(t, ready, q, now)
    \/ Unmount
    \/ RetryCamera
    \/ EffectRerun

Spec == Init /\ [][Next]_vars

\* One mount with a device that may deliver any resolution and change it:
\* the sessions follow one another (retry after a failure).
InitFrames ==
    /\ mounted = TRUE
    /\ isLoading = TRUE
    /\ error = NoError
    /\ streamRef = 0
    /\ scanIntervalRef = 0
    /\ openStreams = {}
    /\ liveTimers = {}
    /\ timerKind = [k \in Sessions |-> "none"]
    /\ scanAttempts = [k \in Sessions |-> 0]
    /\ acquiring = {1}
    /\ importing = {}
    /\ srcObject = 0
    /\ metaPending = 0
    /\ sessions = 1
    /\ granted = {}
    /\ rejected = [k \in Sessions |-> NoRejection]
    /\ log = <<>>
    /\ videoSize \in Resolutions
    /\ canvasSize = DefaultCanvas
    /\ lastOp = "other"
    /\ isScanning = TRUE
    /\ scannedData = NullData
    /\ scanHistory = <<>>
    /\ pageNow = 0
    /\ deliveries = <<>>

NextFrames ==
    \/ \E k \in Sessions : AcquireOk(k)
    \/ \E k \in Sessions, err \in Rejections : AcquireFail(k, err)
    \/ MetadataLoaded
    \/ \E k \in Sessions : ImportOk(k)
    \/ \E k \in Sessions : ImportFail(k)
    \/ \E t \in Sessions, ready \in BOOLEAN, code \in Codes :
          TracedTickJsQR(t, ready, code)
    \/ \E t \in Sessions, ready \in BOOLEAN, q \in BOOLEAN, now \in Clock :
          TracedTickFallback(t, ready, q, now)
    \/ \E size \in Resolutions : Resize(size)
    \/ Unmount
    \/ RetryCamera

FrameSpec == InitFrames /\ [][NextFrames]_vars

\* ------------------------------------------------------------- the page
\* Strings the page inspects are sequences of characters.
Http == <<"h", "t", "t", "p", ":", "/", "/">>
Https == <<"h", "t", "t", "p", "s", ":", "/", "/">>
Mailto == <<"m", "a", "i", "l", "t", "o", ":">>
Tel == <<"t", "e", "l", ":">>
Wifi == <<"w", "i", "f", "i", ":">>
Digits == {"0", "1", "2", "3", "4", "5", "6", "7", "8", "9"}

\* Payloads the scanner hands to onScanResult.
PagePayloads == {Https \o <<"a">>, <<"4", "2">>}

\* Values of new Date() at the calls of handleScanResult.
PageClock == 0..1

\* data.startsWith(prefix)
StartsWith(data, prefix) ==
    Len(data) >= Len(prefix) /\ SubSeq(data, 1, Len(prefix)) = prefix

\* data.includes(c), c one character
Includes(data, c) == \E i \in 1..Len(data) : data[i] = c

\* /^\d+$/.test(data)
AllDigits(data) == Len(data) > 0 /\ \A i \in 1..Len(data) : data[i] \in Digits

\* detectQRType
detectQRType(data) ==
    IF StartsWith(data, Http) \/ StartsWith(data, Https) THEN "Website URL"
    ELSE IF StartsWith(data, Mailto) THEN "Email"
    ELSE IF StartsWith(data, Tel) THEN "Phone Number"
    ELSE IF StartsWith(data, Wifi) THEN "WiFi Credentials"
    ELSE IF Includes(data, "@") /\ Includes(data, ".") THEN "Email Address"
    ELSE IF AllDigits(data) THEN "Number"
    ELSE "Text"

\* new Date().toLocaleString("hi-IN"), for the time now
ToLocaleString(now) == [locale |-> "hi-IN", at |-> now]

\* prev.slice(from, to), for 0 <= from <= to
SliceInclusive(prev, from, to) == SubSeq(prev, from + 1, Min2(to + 1, Len(prev)))
Slice(prev, from, to) == SubSeq(prev, from + 1, Min2(to, Len(prev)))

\* prev.slice(0, 9): the entries kept behind the new one
HistoryKept == 9

\* handleScanResult(data), called by the mounted scanner at time now
handleScanResult(data, now) ==
    /\ mounted
    /\ Len(deliveries) < MaxDeliveries
    /\ now >= pageNow
    /\ pageNow' = now
    /\ scannedData' = [isNull |-> FALSE, text |-> data]
    /\ isScanning' = FALSE
    /\ LET newScan == [data |-> data,
                       timestamp |-> ToLocaleString(now),
                       type |-> detectQRType(data)]
       IN  /\ scanHistory' = <<newScan>> \o Slice(scanHistory, 0, HistoryKept)
           /\ deliveries' = Append(deliveries, newScan)
    /\ UNCHANGED <<mounted, scannerVars>>

\* The onError prop: console.error, alert, setIsScanning(false)
handleError ==
    /\ mounted
    /\ isScanning' = FALSE
    /\ UNCHANGED <<mounted, scannerVars, scannedData, scanHistory, pageNow, deliveries>>

\* startScanning, from the button shown while the scanner is not rendered
startScanning ==
    /\ ~mounted
    /\ ~isScanning
    /\ isScanning' = TRUE
    /\ scannedData' = NullData
    /\ UNCHANGED <<mounted, scannerVars, scanHistory, pageNow, deliveries>>

\* stopScanning, from the button shown next to the scanner
stopScanning ==
    /\ mounted
    /\ isScanning' = FALSE
    /\ UNCHANGED <<mounted, scannerVars, scannedData, scanHistory, pageNow, deliveries>>

\* React commits the page: <QrScanner> is rendered exactly while isScanning.
Render ==
    /\ mounted # isScanning
    /\ mounted' = isScanning
    /\ UNCHANGED <<scannerVars, pageVars>>

\* The page before the first click; the scanner's own state is left out.
InitPage ==
    /\ mounted = FALSE
    /\ isLoading = TRUE
    /\ error = NoError
    /\ streamRef = 0
    /\ scanIntervalRef = 0
    /\ openStreams = {}
    /\ liveTimers = {}
    /\ timerKind = [k \in Sessions |-> "none"]
    /\ scanAttempts = [k \in Sessions |-> 0]
    /\ acquiring = {}
    /\ importing = {}
    /\ srcObject = 0
    /\ metaPending = 0
    /\ sessions = 1
    /\ granted = {}
    /\ rejected = [k \in Sessions |-> NoRejection]
    /\ log = <<>>
    /\ videoSize = SteadyResolution
    /\ canvasSize = DefaultCanvas
    /\ lastOp = "other"
    /\ isScanning = FALSE
    /\ scannedData = NullData
    /\ scanHistory = <<>>
    /\ pageNow = 0
    /\ deliveries = <<>>

NextPage ==
    \/ \E data \in PagePayloads, now \in PageClock : handleScanResult(data, now)
    \/ handleError
    \/ startScanning
    \/ stopScanning
    \/ Render

PageSpec == InitPage /\ [][NextPage]_vars

TypeOK ==
    /\ mounted \in BOOLEAN /\ isLoading \in BOOLEAN
    /\ error \in {NoError, DefaultMessage} \cup Causes
    /\ streamRef \in 0..MaxSessions /\ scanIntervalRef \in 0..MaxSessions
    /\ openStreams \subseteq Sessions /\ liveTimers \subseteq Sessions
    /\ acquiring \subseteq Sessions /\ importing \subseteq Sessions
    /\ srcObject \in 0..MaxSessions /\ metaPending \in 0..MaxSessions
    /\ sessions \in Sessions /\ granted \subseteq Sessions
    /\ Len(log) <= MaxLog
    /\ videoSize \in Resolutions /\ canvasSize \in Resolutions \cup {DefaultCanvas}

\* ------------------------------------------------------------ properties

Emitted(k) == {i \in 1..Len(log) : log[i].session = k}
Decodes == {i \in 1..Len(log) : log[i].cb = "onScanResult"}

\* C1: in every session the decoded-payload callback fires at most once,
\* the error callback fires at most once, and never both.
AtMostOneOutcomePerSession ==
    \A k \in Sessions : Cardinality(Emitted(k)) <= 1

\* C2: the capture handle is held only in Acquiring or Scanning, is held
\* throughout Scanning, and is never held in Idle, Succeeded or Failed.
HandleHeldOnlyWhileActive ==
    /\ SessionState \in {"Idle", "Succeeded", "Failed"} => streamRef = 0
    /\ SessionState = "Scanning" => streamRef # 0

\* C3: after a tick of a session has emitted a decode, that session emits
\* nothing more and its timer is no longer scheduled.
NoTickAfterDecode ==
    \A i \in Decodes :
        /\ log[i].session \notin liveTimers
        /\ Emitted(log[i].session) = {i}

\* The step in which getUserMedia rejects for session k.
FailedStep(k) == rejected[k] = NoRejection /\ rejected'[k] # NoRejection

\* C4: a session whose acquisition failed with cause c has emitted exactly
\* onError(c), has created no timer and has never obtained a stream; the
\* failure itself puts the mounted component into the error state with c.
AcquisitionFailureReported ==
    /\ [](\A k \in Sessions : rejected[k].isError =>
            /\ \E i \in 1..Len(log) :
                  /\ Emitted(k) = {i}
                  /\ log[i].cb = "onError"
                  /\ log[i].arg = rejected[k].message
            /\ timerKind[k] = "none" /\ k \notin liveTimers /\ scanIntervalRef # k
            /\ k \notin importing
            /\ k \notin granted /\ k \notin openStreams /\ streamRef # k)
    /\ [][\A k \in Sessions : (FailedStep(k) /\ rejected'[k].isError /\ mounted) =>
            /\ error' = rejected'[k].message
            /\ SessionState' = "Failed"
            /\ liveTimers' = liveTimers /\ openStreams' = openStreams]_vars

\* C4 witness: a session was refused with a cause and the component shows it.
AcquisitionFailureSeen ==
    \E k \in Sessions :
        /\ rejected[k].isError
        /\ error = rejected[k].message
        /\ \E i \in Emitted(k) : log[i].arg = "permission denied"

\* C5: when stopCamera returns from a call made while Scanning, from the
\* interval callback or from outside, both slots are empty, no timer is
\* scheduled and no stream has a live track.
StopWhileScanningLeavesNothingRunning ==
    [][(SessionState = "Scanning" /\ lastOp' \in StopOps) =>
          /\ scanIntervalRef' = 0 /\ streamRef' = 0
          /\ liveTimers' = {} /\ openStreams' = {}]_vars

\* C6: after teardown no capture handle ends up held, also when the
\* acquisition was still pending at teardown and is granted later.
CancelledAcquisitionNotHeld ==
    ~mounted => streamRef = 0

\* C7: after teardown no recurring timer is created, also when the decoder
\* load was still pending at teardown and completes or fails later.
NoTimerCreatedAfterTeardown ==
    [][~mounted => (liveTimers' \subseteq liveTimers /\ scanIntervalRef' = 0)]_vars

\* C8: when the decoded-payload callback is invoked the timer is already
\* cancelled and the capture handle already released.
StoppedBeforeEmit ==
    \A i \in Decodes : log[i].timerSlot = 0 /\ log[i].streamSlot = 0

\* C9: a stopCamera call that directly follows another one changes neither
\* slot, no timer, no stream and not the session state, and emits nothing;
\* no stopCamera call at teardown emits anything.
StopTwiceIdempotent ==
    [][/\ (lastOp \in StopOps /\ lastOp' \in {"tickStopAgain", "unmountAgain"}) =>
            /\ scanIntervalRef' = scanIntervalRef /\ streamRef' = streamRef
            /\ liveTimers' = liveTimers /\ openStreams' = openStreams
       /\ lastOp' = "unmountAgain" =>
            /\ SessionState' = SessionState
            /\ \A k \in Sessions : timerKind'[k] = timerKind[k]
       /\ lastOp' \in {"unmount", "unmountAgain"} => log' = log]_vars

\* C9 witness: teardown ran stopCamera right after the interval callback's
\* own stopCamera on a decode.
StoppedTwice ==
    /\ lastOp = "unmountAgain"
    /\ Decodes # {}
    /\ scanIntervalRef = 0 /\ streamRef = 0

\* C10: at no time are two capture streams open, and every open stream is
\* the one the handle slot refers to.
NoInterleavedSessions ==
    /\ Cardinality(openStreams) <= 1
    /\ openStreams \subseteq {streamRef}

\* The decode entries of the log that came from a fallback timer.
FallbackDecodes == {i \in Decodes : timerKind[log[i].session] = "fallback"}

\* C11: a fallback timer reports a detection only on a frame that is at
\* least the 16th its own session analysed, whatever earlier sessions
\* analysed and whether or not the thresholds were met before; a 16th frame
\* that meets the thresholds is reported.
FallbackReportsFromSixteenthAttempt ==
    [][\A t \in Sessions :
         /\ (timerKind[t] = "fallback" /\ Emitted(t)' # Emitted(t))
               => /\ scanAttempts'[t] = scanAttempts[t] + 1
                  /\ scanAttempts'[t] >= 16
         /\ \A now \in Clock :
               (TickFallback(t, TRUE, TRUE, now) /\ scanAttempts'[t] = 16)
                 => log' = Append(log, Emission("onScanResult", FallbackPayload(now), t))]_vars

\* C11 witness: a later session reported on its own 16th frame although an
\* earlier session had analysed frames before it.
SixteenthAttemptOfLaterSession ==
    \E i \in FallbackDecodes :
        /\ scanAttempts[log[i].session] = 16
        /\ \E k \in 1..(log[i].session - 1) : scanAttempts[k] > 0

\* C12: retryCamera from the error state leaves what stopCamera() followed
\* at once by startCamera() leaves: both slots empty, the stream and timer
\* they held stopped, the error cleared, loading shown, one new acquisition
\* pending and nothing emitted, with no timer or stream created.
RetryIsStopThenStart ==
    [][RetryCamera =>
         /\ streamRef' = 0 /\ scanIntervalRef' = 0
         /\ openStreams' = openStreams \ {streamRef}
         /\ liveTimers' = liveTimers \ {scanIntervalRef}
         /\ error' = NoError /\ isLoading'
         /\ acquiring' \ acquiring = {sessions'}
         /\ log' = log
         /\ SessionState' = "Acquiring"
         /\ UNCHANGED <<timerKind, importing, granted>>]_vars

\* C12 witness: the component is acquiring again after a refused session.
RetriedAfterFailure ==
    /\ mounted /\ error = NoError /\ isLoading
    /\ sessions > 1 /\ sessions \in acquiring
    /\ rejected[sessions - 1] # NoRejection

\* C13: at most one interval timer is scheduled, and a scheduled timer is
\* the one scanIntervalRef holds, so that stopCamera cancels it.
EveryLiveTimerInSlot ==
    /\ Cardinality(liveTimers) <= 1
    /\ liveTimers \subseteq {scanIntervalRef}

\* C14: a session gets its timer, primary or fallback, from one completion
\* of import("jsqr") and keeps that kind whatever its callbacks see; the
\* step that starts the fallback emits nothing and sets no error, and a
\* session that has a timer of either kind never reports an error.
StrategySelectedOnce ==
    /\ [](\A k \in Sessions :
            timerKind[k] # "none"
              => /\ k \notin importing
                 /\ \A i \in Emitted(k) : log[i].cb # "onError")
    /\ [][\A k \in Sessions :
            /\ timerKind[k] # "none" => timerKind'[k] = timerKind[k]
            /\ timerKind'[k] # timerKind[k]
                  => /\ k \in importing
                     /\ log' = log /\ error' = error
                     /\ timerKind'[k] = "fallback" => scanAttempts'[k] = 0]_vars

\* C14 witness: a session whose decoder failed to load has analysed frames
\* with the fallback and no error was reported for it.
FallbackInUseWithoutError ==
    \E k \in Sessions :
        /\ timerKind[k] = "fallback" /\ scanAttempts[k] > 1
        /\ \A i \in 1..Len(log) : log[i].cb # "onError"

\* C15: an interval callback in which jsQR returns a code object, with any
\* data string, the empty one included, calls onScanResult with that
\* string and stops the camera.
EveryDecodedPayloadEmitted ==
    [][\A t \in Sessions, code \in Codes :
         (code.found /\ TracedTickJsQR(t, TRUE, code))
           => /\ log' = Append(log, Emission("onScanResult", code.data, t))
              /\ streamRef' = 0 /\ scanIntervalRef' = 0]_vars

\* C16: an interval callback of either kind that finds the video element
\* without enough data changes nothing: it emits nothing, does not touch
\* the canvas, does not count an attempt, and leaves both slots, the timer
\* and the stream as they were.
NotReadyTickChangesNothing ==
    [][(/\ videoPresent
        /\ \/ \E t \in Sessions, code \in Codes : TracedTickJsQR(t, FALSE, code)
           \/ \E t \in Sessions, q \in BOOLEAN, now \in Clock :
                 TracedTickFallback(t, FALSE, q, now))
         => UNCHANGED <<mounted, isLoading, error, streamRef, scanIntervalRef,
                        openStreams, liveTimers, timerKind, scanAttempts, acquiring,
                        importing, srcObject, metaPending, sessions, granted,
                        rejected, log, videoSize, canvasSize>>]_vars

\* C16 witness: the timer in the slot has just run on a video element that
\* was not ready, after frames had been analysed, and is still scheduled.
TickSkippedWhileScanning ==
    /\ lastOp = "tickSkipped" /\ videoPresent
    /\ scanIntervalRef \in liveTimers /\ streamRef \in openStreams
    /\ scanAttempts[scanIntervalRef] > 0

\* C17: an interval callback of either kind that captures a frame leaves
\* the canvas with the width and height the video reports in that
\* callback, whatever the canvas had before and whatever was requested.
CanvasFollowsVideo ==
    [][(\/ \E t \in Sessions, code \in Codes : TracedTickJsQR(t, TRUE, code)
        \/ \E t \in Sessions, q \in BOOLEAN, now \in Clock :
              TracedTickFallback(t, TRUE, q, now))
         => canvasSize' = videoSize]_vars

\* C17 witness: a frame was captured by the primary decoder's callback at a
\* delivered resolution that is not the requested one.
CapturedAtDeliveredSize ==
    /\ lastOp = "tickCaptured"
    /\ scanIntervalRef # 0 /\ timerKind[scanIntervalRef] = "jsqr"
    /\ canvasSize = videoSize /\ videoSize # RequestedSize

\* C18: whenever the fallback has analysed a frame, every x and every y its
\* two loops went through on the canvas of that frame is a whole number
\* inside the frame, and the three bytes read there are those of one pixel.
SamplesAreWholePixels ==
    [][\A t \in Sessions :
         (timerKind[t] = "fallback" /\ scanAttempts'[t] = scanAttempts[t] + 1)
           => LET w == canvasSize'[1]
                  h == canvasSize'[2]
                  xs == LoopCoords2(w \div 2, SampleSize(w, h))
                  ys == LoopCoords2(h \div 2, SampleSize(w, h))
              IN  /\ \A x2 \in xs : x2 % 2 = 0 /\ InFrame2(x2, w)
                  /\ \A y2 \in ys : y2 % 2 = 0 /\ InFrame2(y2, h)
                  /\ \A x2 \in xs, y2 \in ys : ReadsPixel(x2, y2, w)]_vars

\* C19: the history is the last ten entries built by handleScanResult,
\* newest first; each call puts its entry in front of the first nine of
\* the history it found, sets scannedData to its payload and clears
\* isScanning.
HistoryIsLastTenNewestFirst ==
    /\ [](LET n == Len(deliveries)
              m == IF n < 10 THEN n ELSE 10
          IN  /\ Len(scanHistory) = m
              /\ \A i \in 1..m : scanHistory[i] = deliveries[n + 1 - i])
    /\ [][Len(deliveries') > Len(deliveries)
            => /\ Len(scanHistory') = (IF Len(scanHistory) = 10 THEN 10
                                        ELSE Len(scanHistory) + 1)
               /\ scanHistory'[1] = deliveries'[Len(deliveries')]
               /\ \A i \in 2..Len(scanHistory') : scanHistory'[i] = scanHistory[i - 1]
               /\ ~isScanning'
               /\ scannedData' = [isNull |-> FALSE, text |-> scanHistory'[1].data]]_vars

\* C19 witness: an eleventh result arrived, the history holds ten entries
\* without the first one, and the page shows the result, not scanning.
EleventhResultDropsOldest ==
    /\ Len(deliveries) = 11 /\ Len(scanHistory) = 10
    /\ scanHistory[10] = deliveries[2]
    /\ ~isScanning /\ scannedData.text = deliveries[11].data
====
